---- MODULE Spec2Model ----
(***************************************************************************)
(* Model of the marginfi health engine of mev_sol: account decoding, the   *)
(* oracle price adapter and the asset / liability / maintenance sums.      *)
(*                                                                         *)
(* Number widths are scaled down so that every product fits the checker's  *)
(* integers.  An I80F48 is an integer count of 1/ONE units in              *)
(* -I80F48_MAX-1 .. I80F48_MAX; u32 percentages run over 0 .. U32_MAX_RAW; *)
(* i64 / u64 / i128 mantissas over the *_MAX ranges below.  The order      *)
(* i64 < I80F48 integer range < i128 of the real widths is kept.           *)
(***************************************************************************)
EXTENDS Integers, Sequences, FiniteSets, TLC

\* ------------------------------------------------------------ number model

\* The I80F48 value 1 (2^48 in the program, scaled).
ONE == 100
\* Largest I80F48 raw value (2^127 - 1 in the program, scaled).
I80F48_MAX == 40000
\* Largest i64 (pyth price mantissa), scaled; I64_MAX * ONE <= I80F48_MAX.
I64_MAX == 300
\* Largest i128 (switchboard value / std_dev), scaled; above the I80F48 integer range.
I128_MAX == 500
\* u32::MAX, scaled: oracle_max_confidence runs over 0 .. U32_MAX_RAW (100%).
U32_MAX_RAW == 100

Abs(x) == IF x < 0 THEN -x ELSE x

Ok(v) == [k |-> "Ok", v |-> v]
Err(e) == [k |-> "Err", e |-> e]
Panic == [k |-> "Panic"]
IsOk(r) == r.k = "Ok"
\* Option::ok_or_else / anyhow Context::context: a failed step gets the caller's error.
OrErr(r, e) == IF r.k = "Err" THEN Err(e) ELSE r
\* The ? operator: the next step runs on the value of an Ok, anything else returns.
Bind(r, F(_)) == IF r.k = "Ok" THEN F(r.v) ELSE r

InI80F48(x) == -I80F48_MAX - 1 <= x /\ x <= I80F48_MAX

\* Two's complement wrap into the I80F48 range.
WrapI80F48(x) == ((x + I80F48_MAX + 1) % (2 * (I80F48_MAX + 1))) - (I80F48_MAX + 1)

\* Integer division rounding toward zero (Rust's / on integers).
TruncDiv(a, b) ==
  IF (a >= 0) = (b > 0) THEN Abs(a) \div Abs(b) ELSE -(Abs(a) \div Abs(b))

\* fixed::FixedI128::checked_mul: the product rounded down, None on overflow.
checked_mul(a, b) ==
  LET p == (a * b) \div ONE IN
  IF InI80F48(p) THEN Ok(p) ELSE Err("MathError")

\* fixed::FixedI128::checked_div: None on division by zero and on overflow.
checked_div(a, b) ==
  IF b = 0 THEN Err("MathError")
  ELSE LET q == TruncDiv(a * ONE, b) IN
       IF InI80F48(q) THEN Ok(q) ELSE Err("MathError")

checked_add(a, b) == IF InI80F48(a + b) THEN Ok(a + b) ELSE Err("MathError")
checked_sub(a, b) == IF InI80F48(a - b) THEN Ok(a - b) ELSE Err("MathError")

\* The + / - / += operators of fixed: on overflow they panic in a build with
\* overflow checks (debug assertions) and wrap in a build without.
Builds == {"checked", "wrapping"}
unchecked_add(a, b, build) ==
  IF InI80F48(a + b) THEN Ok(a + b)
  ELSE IF build = "checked" THEN Panic ELSE Ok(WrapI80F48(a + b))
unchecked_sub(a, b, build) ==
  IF InI80F48(a - b) THEN Ok(a - b)
  ELSE IF build = "checked" THEN Panic ELSE Ok(WrapI80F48(a - b))

\* I80F48::from_num of an integer: panics when the integer does not fit.
from_num(n) == IF InI80F48(n * ONE) THEN Ok(n * ONE) ELSE Panic

\* ----------------------------------------------------------------- consts

\* Number of entries of the EXP_10_I80F48 table (10^0 .. 10^(EXP_10_LEN-1)).
EXP_10_LEN == 3
RECURSIVE Pow10(_)
Pow10(n) == IF n = 0 THEN 1 ELSE 10 * Pow10(n - 1)
EXP_10_I80F48(i) == Pow10(i) * ONE
\* switchboard_on_demand::PRECISION (18 in the crate, scaled).
SWB_PRECISION == 1
\* I80F48 constants of consts.rs, in units of 1/ONE.
U32_MAX == U32_MAX_RAW * ONE
U32_MAX_DIV_10 == (U32_MAX_RAW \div 10) * ONE
\* 2.12, 1.96 and 0.05
CONF_INTERVAL_MULTIPLE == 212
STD_DEV_MULTIPLE == 196
MAX_CONF_INTERVAL == 5

\* ------------------------------------------------------- oracle price feeds

PriceTypes == {"TimeWeighted", "RealTime"}
Biases == {"None", "Low", "High"}

scale_by_exponent(price, exponent) ==
  IF Abs(exponent) >= EXP_10_LEN THEN Panic
  ELSE IF exponent = 0 THEN Ok(price)
  ELSE IF exponent < 0 THEN checked_div(price, EXP_10_I80F48(Abs(exponent)))
  ELSE checked_mul(price, EXP_10_I80F48(Abs(exponent)))

\* price is the result of I80F48::from_num on the mantissa.
pyth_price_components_to_i80f48(price, exponent) ==
  Bind(price, LAMBDA p : scale_by_exponent(p, exponent))

\* The supplied max confidence taken as is, 0 included.
effective_max_confidence_no_default(oracle_max_confidence) ==
  from_num(oracle_max_confidence)

\* The effective max confidence: the supplied one, or 10% when it is 0.
effective_max_confidence(oracle_max_confidence) ==
  IF oracle_max_confidence > 0 THEN from_num(oracle_max_confidence)
  ELSE Ok(U32_MAX_DIV_10)

\* max_conf = price * oracle_max_confidence / U32_MAX
max_conf_of(price, oracle_max_confidence) ==
  Bind(effective_max_confidence(oracle_max_confidence), LAMBDA omc :
  Bind(checked_mul(price, omc), LAMBDA m :
  checked_div(m, U32_MAX)))

\* The two assertions, then the interval without the cap.
assert_and_keep(conf_interval, capped) ==
  IF capped < 0 THEN Panic
  ELSE IF conf_interval < 0 THEN Panic
  ELSE Ok(conf_interval)

\* The two assertions, then min(conf_interval, capped).
assert_and_min(conf_interval, capped) ==
  IF capped < 0 THEN Panic
  ELSE IF conf_interval < 0 THEN Panic
  ELSE Ok(IF conf_interval < capped THEN conf_interval ELSE capped)

\* The max-confidence check and the 5% cap shared by both feeds, from the
\* already rescaled interval and price.
confidence_check(conf_interval, price, oracle_max_confidence) ==
  Bind(max_conf_of(price, oracle_max_confidence), LAMBDA max_conf :
  IF conf_interval > max_conf THEN Err("OracleMaxConfidenceExceeded")
  ELSE Bind(checked_mul(price, MAX_CONF_INTERVAL), LAMBDA capped :
       assert_and_min(conf_interval, capped)))

pyth_select(feed, use_ema) == IF use_ema THEN feed.ema_price ELSE feed.price

PythPush_get_confidence_interval(feed, use_ema, oracle_max_confidence) ==
  Bind(pyth_price_components_to_i80f48(from_num(pyth_select(feed, use_ema).conf),
                                       pyth_select(feed, use_ema).exponent), LAMBDA c0 :
  Bind(checked_mul(c0, CONF_INTERVAL_MULTIPLE), LAMBDA conf_interval :
  Bind(pyth_price_components_to_i80f48(from_num(pyth_select(feed, use_ema).price),
                                       pyth_select(feed, use_ema).exponent), LAMBDA price :
  confidence_check(conf_interval, price, oracle_max_confidence))))

PythPush_get_ema_price(feed) ==
  pyth_price_components_to_i80f48(from_num(feed.ema_price.price), feed.ema_price.exponent)

PythPush_get_unweighted_price(feed) ==
  pyth_price_components_to_i80f48(from_num(feed.price.price), feed.price.exponent)

\* The interval added for Low and subtracted for High.
apply_bias_reversed(price, confidence_interval, bias) ==
  IF bias = "Low" THEN checked_add(price, confidence_interval)
  ELSE checked_sub(price, confidence_interval)

apply_bias(price, confidence_interval, bias) ==
  IF bias = "Low" THEN checked_sub(price, confidence_interval)
  ELSE checked_add(price, confidence_interval)

PythPush_get_price_of_type(feed, price_type, bias, oracle_max_confidence) ==
  Bind(IF price_type = "TimeWeighted" THEN PythPush_get_ema_price(feed)
       ELSE PythPush_get_unweighted_price(feed), LAMBDA price :
  IF bias = "None" THEN Ok(price)
  ELSE Bind(PythPush_get_confidence_interval(feed, price_type = "TimeWeighted",
                                             oracle_max_confidence),
            LAMBDA confidence_interval : apply_bias(price, confidence_interval, bias)))

Swb_get_price(feed) ==
  Bind(from_num(feed.result.value), LAMBDA n :
  checked_div(n, EXP_10_I80F48(SWB_PRECISION)))

Swb_get_confidence_interval(feed, oracle_max_confidence) ==
  Bind(from_num(feed.result.std_dev), LAMBDA n :
  Bind(checked_div(n, EXP_10_I80F48(SWB_PRECISION)), LAMBDA d :
  Bind(checked_mul(d, STD_DEV_MULTIPLE), LAMBDA conf_interval :
  Bind(Swb_get_price(feed), LAMBDA price :
  confidence_check(conf_interval, price, oracle_max_confidence)))))

Swb_get_price_of_type(feed, price_type, bias, oracle_max_confidence) ==
  Bind(Swb_get_price(feed), LAMBDA price :
  IF bias = "None" THEN Ok(price)
  ELSE Bind(Swb_get_confidence_interval(feed, oracle_max_confidence),
            LAMBDA confidence_interval : apply_bias(price, confidence_interval, bias)))

Fixed_get_price_of_type(feed, price_type, bias, oracle_max_confidence) == Ok(feed.price)

\* enum_dispatch over the three variants of OraclePriceFeedAdapter.
get_price_of_type(feed, price_type, bias, oracle_max_confidence) ==
  CASE feed.variant = "Fixed" ->
         Fixed_get_price_of_type(feed, price_type, bias, oracle_max_confidence)
    [] feed.variant = "PythPushOracle" ->
         PythPush_get_price_of_type(feed, price_type, bias, oracle_max_confidence)
    [] feed.variant = "SwitchboardPull" ->
         Swb_get_price_of_type(feed, price_type, bias, oracle_max_confidence)

\* ------------------------------------------------------------ bank, balance

BalanceSides == {"Assets", "Liabilities"}

\* Balance::is_empty: the side holds no shares.
is_empty(balance, side) ==
  IF side = "Assets" THEN balance.asset_shares = 0 ELSE balance.liability_shares = 0

\* Bank::get_asset_amount / get_liability_amount: shares times the pool's share value.
get_asset_amount(bank, shares) == checked_mul(shares, bank.asset_share_value)
get_liability_amount(bank, shares) == checked_mul(shares, bank.liability_share_value)
\* Bank::get_display_asset: divide by 10^mint_decimals.
get_display_asset(bank, amount) == checked_div(amount, EXP_10_I80F48(bank.mint_decimals))

\* The Fixed feed built without looking at the sign of the price.
try_from_config_fixed_unchecked(bank) ==
  Ok([variant |-> "Fixed", price |-> bank.config.fixed_price])

\* OraclePriceFeedAdapter::try_from_config, OracleAccounts::None arm.
try_from_config_fixed(bank) ==
  IF bank.config.fixed_price < 0 THEN Err("FixedOraclePriceNegative")
  ELSE Ok([variant |-> "Fixed", price |-> bank.config.fixed_price])

\* The feed a bank's oracle accounts yield: the Fixed arm is computed from the
\* configuration, the other arms from the oracle account the bank points at.
try_from_config(bank) ==
  IF bank.config.oracle_setup = "Fixed" THEN try_from_config_fixed(bank)
  ELSE Ok(bank.oracle)

\* -------------------------------------------------------------- health engine

\* An asset_value that never returns before the price lookup.
asset_value_never_returns_early(ba) == FALSE

\* BankAccount::asset_value returns zero before any price lookup on this guard.
asset_value_returns_early(ba) == is_empty(ba.balance, "Liabilities")
\* BankAccount::liability_value returns zero before any price lookup on this guard.
liability_value_returns_early(ba) == is_empty(ba.balance, "Liabilities")

BankAccount_asset_value(ba) ==
  IF asset_value_returns_early(ba) THEN Ok(0)
  ELSE
    Bind(get_price_of_type(ba.price_feed, "RealTime", "Low",
                           ba.bank.config.oracle_max_confidence), LAMBDA price :
    Bind(OrErr(get_asset_amount(ba.bank, ba.balance.asset_shares),
               "asset shares calculation failed"), LAMBDA asset :
    Bind(OrErr(checked_mul(asset, price),
               "asset with decimals value calculation failed"),
         LAMBDA asset_value_with_decimals :
    OrErr(get_display_asset(ba.bank, asset_value_with_decimals),
          "asset value calculation failed"))))

BankAccount_liability_value(ba) ==
  IF liability_value_returns_early(ba) THEN Ok(0)
  ELSE
    Bind(get_price_of_type(ba.price_feed, "RealTime", "Low",
                           ba.bank.config.oracle_max_confidence), LAMBDA price :
    Bind(OrErr(get_asset_amount(ba.bank, ba.balance.liability_shares),
               "liability shares calculation failed"), LAMBDA liability :
    Bind(OrErr(checked_mul(liability, price),
               "liability with decimals value calculation failed"),
         LAMBDA liability_value_with_decimals :
    OrErr(get_display_asset(ba.bank, liability_value_with_decimals),
          "liability value calculation failed"))))

\* try_fold of MarginfiUserAccount::asset_value from bank account i on.
RECURSIVE asset_value_fold(_, _, _, _)
asset_value_fold(bas, i, acc, build) ==
  IF i > Len(bas) THEN Ok(acc)
  ELSE Bind(BankAccount_asset_value(bas[i]), LAMBDA av :
       Bind(unchecked_add(acc, av, build), LAMBDA s :
       asset_value_fold(bas, i + 1, s, build)))

RECURSIVE liability_value_fold(_, _, _, _)
liability_value_fold(bas, i, acc, build) ==
  IF i > Len(bas) THEN Ok(acc)
  ELSE Bind(BankAccount_liability_value(bas[i]), LAMBDA lv :
       Bind(unchecked_add(acc, lv, build), LAMBDA s :
       liability_value_fold(bas, i + 1, s, build)))

asset_value(user, build) == asset_value_fold(user.bank_accounts, 1, 0, build)
liability_value(user, build) == liability_value_fold(user.bank_accounts, 1, 0, build)

\* The weights maintenance() reads from the bank of a bank account.
maintenance_weights(ba) ==
  [asset |-> ba.bank.config.asset_weight_maint,
   liability |-> ba.bank.config.liability_weight_maint]

\* The for loop of MarginfiUserAccount::maintenance from bank account i on, and
\* the final subtraction.
RECURSIVE maintenance_loop(_, _, _, _, _)
maintenance_loop(bas, i, total_asset_value, total_liability_value, build) ==
  IF i > Len(bas) THEN unchecked_sub(total_asset_value, total_liability_value, build)
  ELSE
    Bind(BankAccount_asset_value(bas[i]), LAMBDA av :
    Bind(BankAccount_liability_value(bas[i]), LAMBDA lv :
    Bind(OrErr(checked_mul(av, maintenance_weights(bas[i]).asset),
               "asset maintenance value calculation failed"), LAMBDA wa :
    Bind(unchecked_add(total_asset_value, wa, build), LAMBDA ta :
    Bind(OrErr(checked_mul(lv, maintenance_weights(bas[i]).liability),
               "liability maintenance value calculation failed"), LAMBDA wl :
    Bind(unchecked_add(total_liability_value, wl, build), LAMBDA tl :
    maintenance_loop(bas, i + 1, ta, tl, build)))))))

maintenance(user, build) == maintenance_loop(user.bank_accounts, 1, 0, 0, build)

\* The balances (by position) for which an evaluation up to its first failure
\* performs a price lookup, per side.
RECURSIVE asset_price_lookups(_, _)
asset_price_lookups(bas, i) ==
  IF i > Len(bas) THEN {}
  ELSE (IF asset_value_returns_early(bas[i]) THEN {} ELSE {i})
       \cup (IF BankAccount_asset_value(bas[i]).k # "Ok" THEN {}
             ELSE asset_price_lookups(bas, i + 1))

RECURSIVE liability_price_lookups(_, _)
liability_price_lookups(bas, i) ==
  IF i > Len(bas) THEN {}
  ELSE (IF liability_value_returns_early(bas[i]) THEN {} ELSE {i})
       \cup (IF BankAccount_liability_value(bas[i]).k # "Ok" THEN {}
             ELSE liability_price_lookups(bas, i + 1))

\* ------------------------------------------------------------ account decoding

\* size_of of the record a buffer is decoded into, and the longest buffer drawn.
RECORD_SIZE == 4
MaxBufLen == 16

\* utils::parse_account on a buffer of len bytes: the slice data[8..] panics on
\* fewer than 8 bytes; bytemuck::try_from_bytes wants exactly size_of::<T>() bytes.
parse_account(len) ==
  IF len < 8 THEN Panic
  ELSE IF len - 8 # RECORD_SIZE THEN Err("account data parse failed: SizeMismatch")
  ELSE Ok("record")

\* price::parse_swb_ignore_alignment on a buffer of len bytes whose first 8
\* bytes are (discr_ok) or are not the PullFeedAccountData discriminator: the
\* slice data[8..8 + size] panics when the buffer ends before it.
parse_swb_ignore_alignment(len, discr_ok) ==
  IF len < 8 THEN Err("SwitchboardInvalidAccount")
  ELSE IF ~discr_ok THEN Err("SwitchboardInvalidAccount")
  ELSE IF len < 8 + RECORD_SIZE THEN Panic
  ELSE Ok("record")

\* price::load_price_update_v2_checked: the slice data[0..8] panics on fewer
\* than 8 bytes; deserialize reads the record from data[8..] and fails when
\* the bytes run out.
load_price_update_v2_checked(len, discr_ok) ==
  IF len < 8 THEN Panic
  ELSE IF ~discr_ok THEN Err("PythPushInvalidAccount")
  ELSE IF len - 8 < RECORD_SIZE THEN Err("deserialize")
  ELSE Ok("record")

\* ------------------------------------------------------------------- state

VARIABLES
  account,      \* the active balances of the MarginfiAccount under evaluation
  acct_data,    \* what get_account yields for the account: its data or nothing
  chain,        \* bank_pk -> what the chain holds for the bank account
  user,         \* the result of MarginfiUserAccount::from_pubkey, NotCalled before the call
  ret,          \* the last operation and what it returned
  buf,          \* the raw buffer handed to a decoder
  feed,         \* the price feed under query
  query,        \* the price query
  out           \* the result of the last decode or price query

vars == <<account, acct_data, chain, user, ret, buf, feed, query, out>>

\* Largest number of active balances of an account.
MaxBalances == 2

PythPrice(price, conf, exponent) == [price |-> price, conf |-> conf, exponent |-> exponent]
PythFeed(price, conf, exponent) ==
  [variant |-> "PythPushOracle",
   price |-> PythPrice(price, conf, exponent),
   ema_price |-> PythPrice(price, conf, exponent)]

BankConfig(awm, lwm, omc, setup, fixed_price) ==
  [asset_weight_maint |-> awm, liability_weight_maint |-> lwm,
   oracle_max_confidence |-> omc, oracle_setup |-> setup, fixed_price |-> fixed_price]

MkBank(asv, lsv, dec, config, oracle) ==
  [asset_share_value |-> asv, liability_share_value |-> lsv, mint_decimals |-> dec,
   config |-> config, oracle |-> oracle]

NoOracle == [variant |-> "None"]

\* The banks on chain.  1 and 2 are Token A and Token B of the worked example
\* ($1 fixed price, maintenance weights 0.95 / 1.05); 3 has a pyth feed whose
\* confidence is 20% of the price and no configured max confidence; 4 has a
\* pyth feed at 2.00 with a 1% confidence, distinct share values and one
\* decimal; 5 is configured with a negative fixed price.
Banks == 1 .. 5
BankOnChain(pk) ==
  CASE pk = 1 -> MkBank(100, 100, 0, BankConfig(95, 100, 0, "Fixed", 100), NoOracle)
    [] pk = 2 -> MkBank(100, 100, 0, BankConfig(90, 105, 0, "Fixed", 100), NoOracle)
    [] pk = 3 -> MkBank(100, 200, 0, BankConfig(80, 120, 0, "PythPushOracle", 0),
                        PythFeed(100, 20, -1))
    [] pk = 4 -> MkBank(100, 150, 1, BankConfig(95, 105, 0, "PythPushOracle", 0),
                        PythFeed(200, 2, -2))
    [] pk = 5 -> MkBank(100, 100, 0, BankConfig(95, 105, 0, "Fixed", -100), NoOracle)

\* <<asset_shares, liability_shares>> of a balance: empty, deposit only,
\* borrow only, both sides, and sizes whose sums leave the I80F48 range.
BalanceShares ==
  {<<0, 0>>, <<9000, 0>>, <<10000, 0>>, <<0, 8182>>, <<10000, 8182>>,
   <<0, 30000>>, <<30000, 30000>>}

Balances ==
  {[bank_pk |-> b, asset_shares |-> p[1], liability_shares |-> p[2]] :
     b \in Banks, p \in BalanceShares}

\* Accounts hold at most one balance per bank.
Accounts ==
  {a \in UNION {[1 .. n -> Balances] : n \in 0 .. MaxBalances} :
     \A i, j \in DOMAIN a : i # j => a[i].bank_pk # a[j].bank_pk}

\* Data lengths of a bank account that does not decode: short of the
\* discriminator, and of the wrong size.
BadLengths == {7, 8 + RECORD_SIZE + 1}
GoodLength == 8 + RECORD_SIZE

\* What an RPC fetch of an account yields: its data (its length, and the bank
\* it encodes; 0 for a MarginfiAccount), or nothing.
Data(len, content) == [some |-> TRUE, len |-> len, content |-> content]
NoAccount == [some |-> FALSE, len |-> 0, content |-> 0]
NotCalled == [k |-> "NotCalled"]

\* Bank 1's account may be missing or malformed.
Chains ==
  {[b \in Banks |-> IF b = 1 THEN d ELSE Data(GoodLength, b)] :
     d \in {NoAccount} \cup {Data(n, 1) : n \in BadLengths \cup {GoodLength}}}

IdleFeed == [variant |-> "None"]
IdleBuf == [len |-> 0, discr_ok |-> FALSE]
NoOut == [op |-> "none", res |-> NotCalled]
IdleQuery == [price_type |-> "RealTime", bias |-> "None", oracle_max_confidence |-> 0]

\* ------------------------------------------------------------- from_pubkey

\* The first element of seq that is not Ok, else Ok of the unwrapped values
\* (Iterator::collect into a Result<Vec<_>, _>; a panic while mapping unwinds).
RECURSIVE first_failure(_, _)
first_failure(rs, i) ==
  IF i > Len(rs) THEN Ok([j \in 1 .. Len(rs) |-> rs[j].v])
  ELSE IF rs[i].k # "Ok" THEN rs[i] ELSE first_failure(rs, i + 1)

Min(a, b) == IF a < b THEN a ELSE b

\* The fetched accounts with the absent ones dropped.
collect_bank_accounts_skip_missing(fetched) ==
  Ok(SelectSeq(fetched, LAMBDA d : d.some))

\* get_multiple_accounts(...).into_iter().collect::<Option<Vec<_>>>(): the
\* fetched accounts, or None when any of them is absent.
collect_bank_accounts(fetched) ==
  IF \E i \in DOMAIN fetched : ~fetched[i].some
  THEN Err("get_multiple_accounts failed to load all bank accounts")
  ELSE Ok(fetched)

\* The balances paired with the banks and feeds taken in reverse order.
zip_bank_accounts_reversed(banks, balances, price_feeds) ==
  [i \in 1 .. Min(Min(Len(banks), Len(balances)), Len(price_feeds)) |->
     [bank |-> banks[Len(banks) + 1 - i],
      price_feed |-> price_feeds[Len(price_feeds) + 1 - i],
      balance |-> balances[i]]]

\* banks.zip(active balances).zip(price_feeds) mapped to BankAccount.
zip_bank_accounts(banks, balances, price_feeds) ==
  [i \in 1 .. Min(Min(Len(banks), Len(balances)), Len(price_feeds)) |->
     [bank |-> banks[i], price_feed |-> price_feeds[i], balance |-> balances[i]]]

\* parse_account::<Bank> of a fetched bank account.
parse_bank(data) ==
  Bind(parse_account(data.len), LAMBDA r : Ok(BankOnChain(data.content)))

\* A panic unwinds through map_err; an error is replaced by the caller's.
MapErr(r, e) == OrErr(r, e)

from_pubkey(adata, acct, ch) ==
  IF ~adata.some THEN Err("rpc")
  ELSE
    Bind(MapErr(parse_account(adata.len), "invalid account data"), LAMBDA parsed :
    Bind(collect_bank_accounts([i \in 1 .. Len(acct) |-> ch[acct[i].bank_pk]]),
         LAMBDA bank_accounts :
    Bind(MapErr(first_failure([i \in 1 .. Len(bank_accounts) |->
                                 parse_bank(bank_accounts[i])], 1),
                "invalid bank data"), LAMBDA banks :
    Bind(first_failure([i \in 1 .. Len(banks) |-> try_from_config(banks[i])], 1),
         LAMBDA price_feeds :
    Ok([bank_accounts |-> zip_bank_accounts(banks, acct, price_feeds)])))))

\* ----------------------------------------------------------- handle_account

\* The body of the async block for one balance and side, after the zero-shares
\* return: fetch and decode the bank, build the feed (asset side), convert.
handle_balance(ch, side, balance) ==
  LET data == ch[balance.bank_pk] IN
  Bind(IF ~data.some THEN Err("invalid bank account data")
       ELSE MapErr(parse_bank(data), "invalid bank account data"), LAMBDA bank_account :
  Bind(IF side = "Assets" THEN try_from_config(bank_account) ELSE Ok(0),
       LAMBDA price_feed :
  Bind(OrErr(IF side = "Assets"
             THEN get_asset_amount(bank_account, balance.asset_shares)
             ELSE get_liability_amount(bank_account, balance.liability_shares),
             "asset amount calculation failed"), LAMBDA amount :
  OrErr(get_display_asset(bank_account, amount), "asset calculation failed"))))

side_shares(balance, side) ==
  IF side = "Assets" THEN balance.asset_shares ELSE balance.liability_shares

\* One loop of Marginfi::handle_account from balance i on, with the bank
\* fetches it makes: a side with zero shares returns before any fetch.
RECURSIVE handle_side(_, _, _, _, _)
handle_side(acct, ch, side, i, fetched) ==
  IF i > Len(acct) THEN [res |-> Ok(0), fetched |-> fetched]
  ELSE IF side_shares(acct[i], side) = 0 THEN handle_side(acct, ch, side, i + 1, fetched)
  ELSE IF handle_balance(ch, side, acct[i]).k # "Ok"
    THEN [res |-> handle_balance(ch, side, acct[i]),
          fetched |-> Append(fetched, [side |-> side, idx |-> i])]
  ELSE handle_side(acct, ch, side, i + 1, Append(fetched, [side |-> side, idx |-> i]))

\* Both loops of Marginfi::handle_account: the result and the bank fetches made.
handle_loops(acct, ch) ==
  IF handle_side(acct, ch, "Assets", 1, <<>>).res.k # "Ok"
  THEN handle_side(acct, ch, "Assets", 1, <<>>)
  ELSE handle_side(acct, ch, "Liabilities", 1,
                   handle_side(acct, ch, "Assets", 1, <<>>).fetched)

handle_account(adata, acct, ch) ==
  IF ~adata.some THEN [res |-> Err("invalid account data"), fetched |-> <<>>]
  ELSE IF parse_account(adata.len).k # "Ok"
    THEN [res |-> MapErr(parse_account(adata.len), "invalid account data"),
          fetched |-> <<>>]
  ELSE handle_loops(acct, ch)

\* ------------------------------------------------------------------ actions

NoRet == [op |-> "none"]

Init ==
  /\ acct_data \in {NoAccount} \cup {Data(n, 0) : n \in BadLengths \cup {GoodLength}}
  /\ account \in Accounts
  /\ chain \in Chains
  /\ acct_data # Data(GoodLength, 0) =>
        account = <<>> /\ chain = [b \in Banks |-> Data(GoodLength, b)]
  /\ user = NotCalled
  /\ ret = NoRet
  /\ buf = IdleBuf
  /\ feed = IdleFeed
  /\ query = IdleQuery
  /\ out = NoOut

FromPubkey ==
  /\ user = NotCalled
  /\ user' = from_pubkey(acct_data, account, chain)
  /\ ret' = [op |-> "from_pubkey"]
  /\ UNCHANGED <<account, acct_data, chain, buf, feed, query, out>>

AssetValue ==
  /\ user.k = "Ok"
  /\ \E build \in Builds :
       ret' = [op |-> "asset_value", res |-> asset_value(user.v, build),
               lookups |-> asset_price_lookups(user.v.bank_accounts, 1)]
  /\ UNCHANGED <<account, acct_data, chain, user, buf, feed, query, out>>

LiabilityValue ==
  /\ user.k = "Ok"
  /\ \E build \in Builds :
       ret' = [op |-> "liability_value", res |-> liability_value(user.v, build),
               lookups |-> liability_price_lookups(user.v.bank_accounts, 1)]
  /\ UNCHANGED <<account, acct_data, chain, user, buf, feed, query, out>>

Maintenance ==
  /\ user.k = "Ok"
  /\ \E build \in Builds :
       ret' = [op |-> "maintenance", res |-> maintenance(user.v, build)]
  /\ UNCHANGED <<account, acct_data, chain, user, buf, feed, query, out>>

HandleAccount ==
  /\ LET h == handle_account(acct_data, account, chain) IN
       ret' = [op |-> "handle_account", res |-> h.res, fetched |-> h.fetched]
  /\ UNCHANGED <<account, acct_data, chain, user, buf, feed, query, out>>

Next == FromPubkey \/ AssetValue \/ LiabilityValue \/ Maintenance \/ HandleAccount

Spec == Init /\ [][Next]_vars

\* --------------------------------------------------------- decoding alone

Buffers == [len : 0 .. MaxBufLen, discr_ok : BOOLEAN]

InitDecode ==
  /\ buf \in Buffers
  /\ out = NoOut
  /\ account = <<>>
  /\ acct_data = NoAccount
  /\ chain = [b \in Banks |-> Data(GoodLength, b)]
  /\ user = NotCalled
  /\ ret = NoRet
  /\ feed = IdleFeed
  /\ query = IdleQuery

ParseAccount ==
  /\ out' = [op |-> "parse_account", res |-> parse_account(buf.len)]
  /\ UNCHANGED <<account, acct_data, chain, user, ret, buf, feed, query>>

ParseSwb ==
  /\ out' = [op |-> "parse_swb_ignore_alignment",
             res |-> parse_swb_ignore_alignment(buf.len, buf.discr_ok)]
  /\ UNCHANGED <<account, acct_data, chain, user, ret, buf, feed, query>>

LoadPriceUpdateV2 ==
  /\ out' = [op |-> "load_price_update_v2_checked",
             res |-> load_price_update_v2_checked(buf.len, buf.discr_ok)]
  /\ UNCHANGED <<account, acct_data, chain, user, ret, buf, feed, query>>

NextDecode == ParseAccount \/ ParseSwb \/ LoadPriceUpdateV2

SpecDecode == InitDecode /\ [][NextDecode]_vars

\* ------------------------------------------------------ price queries alone

PythMantissas == {-100, 0, 2, 100, 200, I64_MAX}
PythConfs == {0, 1, 20, 40, 150}
PythExponents == {-2, -1, 0, 1, EXP_10_LEN}
PythEmas == {PythPrice(100, 1, 0), PythPrice(200, 40, 0)}
PythFeeds ==
  {[variant |-> "PythPushOracle",
    price |-> PythPrice(p, c, e),
    ema_price |-> PythPrice(ema.price, ema.conf, e)] :
     p \in PythMantissas, c \in PythConfs, e \in PythExponents, ema \in PythEmas}

SwbValues == {-10, 0, 20, 100, I128_MAX}
SwbStdDevs == {-1, 0, 1, 4, I128_MAX}
SwbFeeds ==
  {[variant |-> "SwitchboardPull", result |-> [value |-> v, std_dev |-> d]] :
     v \in SwbValues, d \in SwbStdDevs}

FixedFeeds == {[variant |-> "Fixed", price |-> p] : p \in {0, 100}}

MaxConfidences == {0, 10, 50, U32_MAX_RAW}
Queries ==
  [price_type : PriceTypes, bias : Biases, oracle_max_confidence : MaxConfidences]

InitPrice ==
  /\ feed \in PythFeeds \cup SwbFeeds \cup FixedFeeds
  /\ query \in Queries
  /\ out = NoOut
  /\ buf = IdleBuf
  /\ account = <<>>
  /\ acct_data = NoAccount
  /\ chain = [b \in Banks |-> Data(GoodLength, b)]
  /\ user = NotCalled
  /\ ret = NoRet

GetPriceOfType ==
  /\ out' = [op |-> "get_price_of_type",
             res |-> get_price_of_type(feed, query.price_type, query.bias,
                                       query.oracle_max_confidence)]
  /\ UNCHANGED <<account, acct_data, chain, user, ret, buf, feed, query>>

NextPrice == GetPriceOfType

SpecPrice == InitPrice /\ [][NextPrice]_vars

\* ------------------------------------------------------ feed construction

\* Largest u64, for an i64 of I64_MAX.
U64_MAX == 2 * I64_MAX + 1
InI64(x) == -I64_MAX - 1 <= x /\ x <= I64_MAX
InU64(x) == 0 <= x /\ x <= U64_MAX
InI128(x) == -I128_MAX - 1 <= x /\ x <= I128_MAX

\* `max_age as i64`: a u64 above i64::MAX wraps to a negative number.
as_i64(x) == IF x > I64_MAX THEN x - (U64_MAX + 1) ELSE x

saturate_i64(x) ==
  IF x > I64_MAX THEN I64_MAX ELSE IF x < -I64_MAX - 1 THEN -I64_MAX - 1 ELSE x
saturating_sub(a, b) == saturate_i64(a - b)
saturating_add(a, b) == saturate_i64(a + b)

\* TryInto<i64>, and Result::unwrap.
try_into_i64(x) == IF InI64(x) THEN Ok(x) ELSE Err("TryFromIntError")
unwrap(r) == IF r.k = "Err" THEN Panic ELSE r

\* The default max age of a PythPushOracle bank (consts.rs), scaled.
MAX_PYTH_ORACLE_AGE == 6

\* The configured max age taken as is, 0 included.
get_oracle_max_age_no_default(config) == config.oracle_max_age

\* BankConfig::get_oracle_max_age
get_oracle_max_age(config) ==
  IF config.oracle_max_age = 0 /\ config.oracle_setup = "PythPushOracle"
  THEN MAX_PYTH_ORACLE_AGE
  ELSE config.oracle_max_age

\* The staleness test of SwitchboardPullPriceFeed::load_checked.
swb_is_stale(current_timestamp, last_updated, max_age) ==
  saturating_sub(current_timestamp, last_updated) > as_i64(max_age)

\* SwitchboardPullPriceFeed::load_checked on an oracle account: its data
\* (length, discriminator) and the record the data decodes to.
SwitchboardPull_load_checked(oracle_account, current_timestamp, max_age) ==
  Bind(parse_swb_ignore_alignment(oracle_account.data.len, oracle_account.data.discr_ok), LAMBDA rec :
  IF swb_is_stale(current_timestamp, oracle_account.swb.last_update_timestamp, max_age)
  THEN Err("SwitchboardStalePrice")
  ELSE Ok([variant |-> "SwitchboardPull",
           result |-> [value |-> oracle_account.swb.value, std_dev |-> oracle_account.swb.std_dev]]))

VerificationLevels == {"Partial", "Full"}
MIN_PYTH_PUSH_VERIFICATION_LEVEL == "Full"
\* VerificationLevel::gte
verification_gte(have, want) == have = "Full" \/ want = "Partial"

\* PriceUpdateV2::get_price_no_older_than_with_custom_verification_level
get_price_no_older_than_with_custom_verification_level(msg, clock, maximum_age, level) ==
  IF ~verification_gte(msg.verification_level, level)
  THEN Err("InsufficientVerificationLevel")
  ELSE Bind(unwrap(try_into_i64(maximum_age)), LAMBDA age :
       IF saturating_add(msg.publish_time, age) >= clock
       THEN Ok(PythPrice(msg.price, msg.conf, msg.exponent))
       ELSE Err("PriceTooOld"))

\* From<GetPriceError> for MarginfiError
From_GetPriceError(r) ==
  IF r.k # "Err" THEN r
  ELSE IF r.e = "PriceTooOld" THEN Err("PythPushStalePrice")
  ELSE IF r.e = "InsufficientVerificationLevel"
       THEN Err("PythPushInsufficientVerificationLevel")
  ELSE Err("PythPushInvalidAccount")

\* PythPushOraclePriceFeed::load_checked
PythPush_load_checked(oracle_account, clock, max_age) ==
  Bind(load_price_update_v2_checked(oracle_account.data.len, oracle_account.data.discr_ok), LAMBDA rec :
  Bind(From_GetPriceError(
         get_price_no_older_than_with_custom_verification_level(
           oracle_account.msg, clock, max_age, MIN_PYTH_PUSH_VERIFICATION_LEVEL)), LAMBDA price :
  Ok([variant |-> "PythPushOracle",
      price |-> price,
      ema_price |-> PythPrice(oracle_account.msg.ema_price, oracle_account.msg.ema_conf,
                              oracle_account.msg.exponent)])))

\* lamports_per_sol (1_000_000_000 in the program, scaled).
LAMPORTS_PER_SOL == 10

\* u64::checked_sub
checked_sub_u64(a, b) == IF a >= b THEN Ok(a - b) ELSE Err("MathError")

\* The rescale with the division left out.
stake_rescale_no_division(mantissa, sol_pool_adjusted_balance, lst_supply) ==
  unwrap(try_into_i64(mantissa * sol_pool_adjusted_balance))

\* (mantissa as i128 * balance as i128 / supply as i128).try_into().unwrap():
\* the i128 product of an i64 and a u64 always fits; the quotient may not fit
\* the i64 it is converted back to.
stake_rescale(mantissa, sol_pool_adjusted_balance, lst_supply) ==
  IF lst_supply = 0 THEN Err("MathError")
  ELSE unwrap(try_into_i64(TruncDiv(mantissa * sol_pool_adjusted_balance, lst_supply)))

\* try_from_config, OracleAccounts::PythPush and SwitchboardPull arms.
try_from_config_PythPush(config) ==
  PythPush_load_checked(config.accounts, config.clock, config.max_age)
try_from_config_SwitchboardPull(config) ==
  SwitchboardPull_load_checked(config.accounts, config.clock, config.max_age)

\* try_from_config, OracleAccounts::StakedWithPythPush arm.
try_from_config_StakedWithPythPush(config) ==
  IF config.accounts.stake_state.kind = "Undecodable" THEN Err("BorshIoError")
  ELSE IF config.accounts.stake_state.kind # "Stake" THEN Err("Deprecated")
  ELSE
    Bind(checked_sub_u64(config.accounts.stake_state.stake, LAMPORTS_PER_SOL),
         LAMBDA sol_pool_adjusted_balance :
    Bind(PythPush_load_checked(config.accounts, config.clock, config.max_age),
         LAMBDA f :
    IF config.accounts.lst_supply = 0 THEN Err("ZeroSupplyInStakePool")
    ELSE
      Bind(stake_rescale(f.price.price, sol_pool_adjusted_balance,
                         config.accounts.lst_supply), LAMBDA p :
      Bind(stake_rescale(f.ema_price.price, sol_pool_adjusted_balance,
                         config.accounts.lst_supply), LAMBDA ep :
      Ok([f EXCEPT !.price.price = p, !.ema_price.price = ep])))))

\* I80F48 / I80F48: panics on a zero divisor; on overflow it panics in a build
\* with overflow checks and wraps in a build without.
unchecked_div(a, b, build) ==
  IF b = 0 THEN Panic
  ELSE LET q == TruncDiv(a * ONE, b) IN
       IF InI80F48(q) THEN Ok(q)
       ELSE IF build = "checked" THEN Panic ELSE Ok(WrapI80F48(q))

\* kamino_mocks_state::adjust_i64 / adjust_u64 / adjust_i128: the raw integer
\* times the ratio, back in the integer's type, or a math error.
adjust_i64(raw, ratio) ==
  Bind(from_num(raw), LAMBDA n : Bind(checked_mul(n, ratio), LAMBDA pr :
  IF InI64(pr \div ONE) THEN Ok(pr \div ONE) ELSE Err("MathError")))
adjust_u64(raw, ratio) ==
  Bind(from_num(raw), LAMBDA n : Bind(checked_mul(n, ratio), LAMBDA pr :
  IF InU64(pr \div ONE) THEN Ok(pr \div ONE) ELSE Err("MathError")))
adjust_i128(raw, ratio) ==
  Bind(from_num(raw), LAMBDA n : Bind(checked_mul(n, ratio), LAMBDA pr :
  IF InI128(pr \div ONE) THEN Ok(pr \div ONE) ELSE Err("MathError")))

\* parse_account::<MinimalReserve>(&reserve.data).map_err(..)?.scaled_supplies()?
reserve_scaled_supplies(reserve) ==
  Bind(MapErr(parse_account(reserve.len), "AccountDidNotDeserialize"), LAMBDA rec :
  Ok([total_liq |-> reserve.total_liq, total_col |-> reserve.total_col]))

\* A Pyth feed rescaled with the confidence fields left as they are.
kamino_adjust_pyth_prices_only(f, ratio) ==
  Bind(adjust_i64(f.price.price, ratio), LAMBDA p :
  Bind(adjust_i64(f.ema_price.price, ratio), LAMBDA ep :
  Ok([f EXCEPT !.price.price = p, !.ema_price.price = ep])))

\* The four fields of a Pyth feed rescaled by the ratio.
kamino_adjust_pyth(f, ratio) ==
  Bind(adjust_i64(f.price.price, ratio), LAMBDA p :
  Bind(adjust_i64(f.ema_price.price, ratio), LAMBDA ep :
  Bind(adjust_u64(f.price.conf, ratio), LAMBDA c :
  Bind(adjust_u64(f.ema_price.conf, ratio), LAMBDA ec :
  Ok([f EXCEPT !.price.price = p, !.ema_price.price = ep,
               !.price.conf = c, !.ema_price.conf = ec])))))

kamino_adjust_swb(f, ratio) ==
  Bind(adjust_i128(f.result.value, ratio), LAMBDA v :
  Bind(adjust_i128(f.result.std_dev, ratio), LAMBDA d :
  Ok([f EXCEPT !.result.value = v, !.result.std_dev = d])))

\* try_from_config, OracleAccounts::KaminoPythPush arm.
try_from_config_KaminoPythPush(config, build) ==
  Bind(PythPush_load_checked(config.accounts, config.clock, config.max_age),
       LAMBDA price_feed :
  Bind(reserve_scaled_supplies(config.accounts.reserve), LAMBDA s :
  IF s.total_col > 0
  THEN Bind(unchecked_div(s.total_liq, s.total_col, build), LAMBDA ratio :
       kamino_adjust_pyth(price_feed, ratio))
  ELSE Ok(price_feed)))

\* try_from_config, OracleAccounts::KaminoSwitchboardPull arm.
try_from_config_KaminoSwitchboardPull(config, build) ==
  Bind(SwitchboardPull_load_checked(config.accounts, config.clock, config.max_age),
       LAMBDA price_feed :
  Bind(reserve_scaled_supplies(config.accounts.reserve), LAMBDA s :
  IF s.total_col > 0
  THEN Bind(unchecked_div(s.total_liq, s.total_col, build), LAMBDA ratio :
       kamino_adjust_swb(price_feed, ratio))
  ELSE Ok(price_feed)))

\* OraclePriceFeedAdapterConfig::load_with_clock_and_max_age: the kind of
\* oracle accounts the bank's oracle_setup asks for, with the accounts fetched.
OracleSetups ==
  {"None", "PythLegacy", "SwitchboardV2", "PythPushOracle", "SwitchboardPull",
   "StakedWithPythPush", "KaminoPythPush", "KaminoSwitchboardPull", "Fixed"}
load_with_clock_and_max_age(bank, fetched, clock, max_age) ==
  IF bank.config.oracle_setup = "None" THEN Err("OracleNotSetup")
  ELSE IF bank.config.oracle_setup \in {"PythLegacy", "SwitchboardV2"}
       THEN Err("Deprecated")
  ELSE Ok([bank |-> bank,
           accounts |-> [fetched EXCEPT !.kind =
              CASE bank.config.oracle_setup = "Fixed" -> "None"
                [] bank.config.oracle_setup = "PythPushOracle" -> "PythPush"
                [] OTHER -> bank.config.oracle_setup],
           clock |-> clock,
           max_age |-> max_age])

\* OraclePriceFeedAdapterConfig::load_with_clock
load_with_clock(bank, fetched, clock) ==
  load_with_clock_and_max_age(bank, fetched, clock, get_oracle_max_age(bank.config))

\* OraclePriceFeedAdapter::try_from_config: match config.accounts.
try_from_config_accounts(config, build) ==
  CASE config.accounts.kind = "None" -> try_from_config_fixed(config.bank)
    [] config.accounts.kind = "PythPush" -> try_from_config_PythPush(config)
    [] config.accounts.kind = "SwitchboardPull" -> try_from_config_SwitchboardPull(config)
    [] config.accounts.kind = "StakedWithPythPush" ->
         try_from_config_StakedWithPythPush(config)
    [] config.accounts.kind = "KaminoPythPush" ->
         try_from_config_KaminoPythPush(config, build)
    [] config.accounts.kind = "KaminoSwitchboardPull" ->
         try_from_config_KaminoSwitchboardPull(config, build)

\* ------------------------------------------------- feed construction alone

\* The reference clock (clock.unix_timestamp) of the constructions.
LoadClock == 10
\* A non-zero oracle_max_age a bank configures.
ConfiguredAge == 3
OracleMaxAges == {0, ConfiguredAge}
\* The max ages a caller of load_with_clock_and_max_age passes (any u64).
MaxAges == {0, ConfiguredAge, I64_MAX, I64_MAX + 1, U64_MAX}

\* Oracle account data: short of the discriminator, of another account type,
\* and a well-formed account.
GoodData == [len |-> GoodLength, discr_ok |-> TRUE]
OracleData == {[len |-> 7, discr_ok |-> TRUE], [len |-> GoodLength, discr_ok |-> FALSE],
               GoodData}

\* The accounts an RPC fetch yields for a bank's oracle keys: the oracle
\* account's data and what it decodes to, the stake account, the LST mint's
\* supply and the reserve.
DefaultAccounts ==
  [kind |-> "Fetched",
   data |-> GoodData,
   msg |-> [price |-> 200, conf |-> 2, exponent |-> -2, ema_price |-> 100,
            ema_conf |-> 1, publish_time |-> LoadClock,
            verification_level |-> "Full"],
   swb |-> [value |-> 100, std_dev |-> 4, last_update_timestamp |-> LoadClock],
   stake_state |-> [kind |-> "Stake", stake |-> LAMPORTS_PER_SOL],
   lst_supply |-> 1,
   reserve |-> [len |-> GoodLength, total_liq |-> 0, total_col |-> 0]]

PublishTimes ==
  {LoadClock - a : a \in {ConfiguredAge, ConfiguredAge + 1, MAX_PYTH_ORACLE_AGE,
                          MAX_PYTH_ORACLE_AGE + 1, -1}}
PythAccounts ==
  {[DefaultAccounts EXCEPT !.data = d, !.msg.publish_time = t,
                           !.msg.verification_level = l] :
     d \in OracleData, t \in PublishTimes, l \in VerificationLevels}

LastUpdates ==
  {LoadClock - ConfiguredAge, LoadClock - ConfiguredAge - 1, LoadClock + 1,
   -I64_MAX - 1}
SwbAccounts ==
  {[DefaultAccounts EXCEPT !.data = d, !.swb.last_update_timestamp = t] :
     d \in OracleData, t \in LastUpdates}

StakeKinds == {"Stake", "Initialized", "Undecodable"}
StakeBalances ==
  {LAMPORTS_PER_SOL - 1, LAMPORTS_PER_SOL + 1, LAMPORTS_PER_SOL + 3, U64_MAX}
LstSupplies == {0, 1, 3}
StakedAccounts ==
  {[DefaultAccounts EXCEPT !.data = d, !.msg.price = p, !.stake_state.kind = k,
                           !.stake_state.stake = b, !.lst_supply = n] :
     d \in {GoodData, [len |-> 7, discr_ok |-> TRUE]}, p \in {200, -100},
     k \in StakeKinds, b \in StakeBalances, n \in LstSupplies}

Reserves ==
  [len : {7, GoodLength}, total_liq : {0, 150, 300, I80F48_MAX},
   total_col : {-100, 0, 1, 100, 200}]
KaminoAccounts == {[DefaultAccounts EXCEPT !.reserve = r] : r \in Reserves}

FixedPrices == {-100, -1, 0, 100}

LoadBank(setup, age, fixed_price) ==
  [config |-> [oracle_setup |-> setup, oracle_max_age |-> age,
               fixed_price |-> fixed_price]]

NotLoaded(bank) ==
  [bank |-> bank, clock |-> LoadClock, via |-> "none", loaded |-> NotCalled]

InitLoad ==
  /\ \E age \in OracleMaxAges :
       \/ /\ feed = DefaultAccounts
          /\ \E p \in FixedPrices : query = NotLoaded(LoadBank("Fixed", age, p))
       \/ /\ feed = DefaultAccounts
          /\ \E su \in {"None", "PythLegacy", "SwitchboardV2"} :
               query = NotLoaded(LoadBank(su, age, 0))
       \/ /\ feed \in PythAccounts
          /\ query = NotLoaded(LoadBank("PythPushOracle", age, 0))
       \/ /\ feed \in SwbAccounts
          /\ query = NotLoaded(LoadBank("SwitchboardPull", age, 0))
       \/ /\ feed \in StakedAccounts
          /\ query = NotLoaded(LoadBank("StakedWithPythPush", age, 0))
       \/ /\ feed \in KaminoAccounts
          /\ \E su \in {"KaminoPythPush", "KaminoSwitchboardPull"} :
               query = NotLoaded(LoadBank(su, age, 0))
  /\ out = NoOut
  /\ ret = NoRet
  /\ buf = IdleBuf
  /\ account = <<>>
  /\ acct_data = NoAccount
  /\ chain = [b \in Banks |-> Data(GoodLength, b)]
  /\ user = NotCalled

LoadWithClock ==
  /\ query.via = "none"
  /\ query' = [query EXCEPT !.via = "load_with_clock",
                            !.loaded = load_with_clock(query.bank, feed, query.clock)]
  /\ UNCHANGED <<account, acct_data, chain, user, ret, buf, feed, out>>

LoadWithClockAndMaxAge ==
  /\ query.via = "none"
  /\ \E max_age \in MaxAges :
       query' = [query EXCEPT !.via = "load_with_clock_and_max_age",
                   !.loaded = load_with_clock_and_max_age(query.bank, feed,
                                                          query.clock, max_age)]
  /\ UNCHANGED <<account, acct_data, chain, user, ret, buf, feed, out>>

TryFromConfig ==
  /\ query.loaded.k = "Ok"
  /\ out = NoOut
  /\ \E build \in Builds :
       out' = [op |-> "try_from_config",
               res |-> try_from_config_accounts(query.loaded.v, build)]
  /\ UNCHANGED <<account, acct_data, chain, user, ret, buf, feed, query>>

\* A price query on the feed that was built.
GetPriceOfTypeBuilt ==
  /\ out.op = "try_from_config"
  /\ out.res.k = "Ok"
  /\ ret = NoRet
  /\ \E price_type \in PriceTypes, bias \in Biases, omc \in {0, U32_MAX_RAW} :
       ret' = [op |-> "get_price_of_type", price_type |-> price_type,
               bias |-> bias, oracle_max_confidence |-> omc,
               res |-> get_price_of_type(out.res.v, price_type, bias, omc)]
  /\ UNCHANGED <<account, acct_data, chain, user, buf, feed, query, out>>

NextLoad ==
  LoadWithClock \/ LoadWithClockAndMaxAge \/ TryFromConfig \/ GetPriceOfTypeBuilt

SpecLoad == InitLoad /\ [][NextLoad]_vars

\* ------------------------------------------------- claims: health engine

\* The value the specification gives one side of a bank account:
\* display(shares_to_amount(shares) x price(RealTime, Low, oracle_max_confidence)),
\* with the side's own share conversion, and zero without any lookup for a
\* side that holds no shares.
SideValue(ba, side) ==
  IF side_shares(ba.balance, side) = 0 THEN Ok(0)
  ELSE
    Bind(get_price_of_type(ba.price_feed, "RealTime", "Low",
                           ba.bank.config.oracle_max_confidence), LAMBDA price :
    Bind(IF side = "Assets" THEN get_asset_amount(ba.bank, ba.balance.asset_shares)
         ELSE get_liability_amount(ba.bank, ba.balance.liability_shares), LAMBDA amount :
    Bind(checked_mul(amount, price), LAMBDA with_decimals :
    get_display_asset(ba.bank, with_decimals))))

SideWeight(ba, side) ==
  IF side = "Assets" THEN ba.bank.config.asset_weight_maint
  ELSE ba.bank.config.liability_weight_maint

\* The mathematical sum of the side values of bank accounts i .. Len(bas);
\* only used where every side value is Ok.
RECURSIVE SumValues(_, _, _)
SumValues(bas, side, i) ==
  IF i > Len(bas) THEN 0 ELSE SideValue(bas[i], side).v + SumValues(bas, side, i + 1)

RECURSIVE SumWeighted(_, _, _)
SumWeighted(bas, side, i) ==
  IF i > Len(bas) THEN 0
  ELSE checked_mul(SideValue(bas[i], side).v, SideWeight(bas[i], side)).v
       + SumWeighted(bas, side, i + 1)

AllValuesOk(bas, side) == \A i \in DOMAIN bas : SideValue(bas[i], side).k = "Ok"
AllWeightedOk(bas, side) ==
  /\ AllValuesOk(bas, side)
  /\ \A i \in DOMAIN bas :
       checked_mul(SideValue(bas[i], side).v, SideWeight(bas[i], side)).k = "Ok"

\* Every bank account's low real-time price is available.
AllPricesOk(bas) ==
  \A i \in DOMAIN bas :
    get_price_of_type(bas[i].price_feed, "RealTime", "Low",
                      bas[i].bank.config.oracle_max_confidence).k = "Ok"

Evaluated == user.k = "Ok"
BankAccounts == user.v.bank_accounts

\* C1: where every price is available, asset_value returns the sum, over the
\* balances with non-zero asset shares, of display(amount(asset_shares) x low
\* real-time price); a deposit-only balance contributes its full deposit value.
C1_AssetValueIsSumOfDeposits ==
  (ret.op = "asset_value" /\ AllPricesOk(BankAccounts)
     /\ AllValuesOk(BankAccounts, "Assets")
     /\ InI80F48(SumValues(BankAccounts, "Assets", 1)))
    => ret.res = Ok(SumValues(BankAccounts, "Assets", 1))

\* C2: liability_value returns the sum, over the balances with non-zero
\* liability shares, of display(liability amount(liability_shares) x low
\* real-time price), the shares converted with the liability share value.
C2_LiabilityValueIsSumOfBorrows ==
  (ret.op = "liability_value" /\ AllPricesOk(BankAccounts)
     /\ AllValuesOk(BankAccounts, "Liabilities")
     /\ InI80F48(SumValues(BankAccounts, "Liabilities", 1)))
    => ret.res = Ok(SumValues(BankAccounts, "Liabilities", 1))

\* C3: a side with zero shares contributes exactly zero and triggers no price
\* lookup (asset_value, liability_value) and no bank fetch (handle_account)
\* for that side, whatever the other side holds.
C3_ZeroSideNoLookup ==
  /\ ret.op = "asset_value" =>
       \A i \in ret.lookups : BankAccounts[i].balance.asset_shares # 0
  /\ ret.op = "liability_value" =>
       \A i \in ret.lookups : BankAccounts[i].balance.liability_shares # 0
  /\ ret.op = "handle_account" =>
       \A j \in DOMAIN ret.fetched :
         side_shares(account[ret.fetched[j].idx], ret.fetched[j].side) # 0
  /\ Evaluated =>
       \A i \in DOMAIN BankAccounts :
         /\ BankAccounts[i].balance.asset_shares = 0 =>
              BankAccount_asset_value(BankAccounts[i]) = Ok(0)
         /\ BankAccounts[i].balance.liability_shares = 0 =>
              BankAccount_liability_value(BankAccounts[i]) = Ok(0)

\* C4: maintenance() returns sum(asset_value_i x asset_weight_maint_i) -
\* sum(liability_value_i x liability_weight_maint_i) over the bank accounts,
\* with each bank's own maintenance weights (the account being liquidatable
\* exactly when that number is negative).
MaintenanceMargin ==
  SumWeighted(BankAccounts, "Assets", 1) - SumWeighted(BankAccounts, "Liabilities", 1)
C4_MaintenanceIsWeightedDifference ==
  (ret.op = "maintenance" /\ AllPricesOk(BankAccounts)
     /\ AllWeightedOk(BankAccounts, "Assets")
     /\ AllWeightedOk(BankAccounts, "Liabilities")
     /\ InI80F48(SumWeighted(BankAccounts, "Assets", 1))
     /\ InI80F48(SumWeighted(BankAccounts, "Liabilities", 1))
     /\ InI80F48(MaintenanceMargin))
    => ret.res = Ok(MaintenanceMargin)

\* C5: the worked example.  A deposit-only balance worth $100 at asset
\* maintenance weight 0.95 and a borrow-only balance worth $81.82 at liability
\* maintenance weight 1.05 give a margin of about +9.09; with the deposit
\* worth $90 the margin is about -0.41.
Susie(deposit) ==
  <<[bank_pk |-> 1, asset_shares |-> deposit, liability_shares |-> 0],
    [bank_pk |-> 2, asset_shares |-> 0, liability_shares |-> 8182]>>
C5_WorkedExample ==
  ret.op = "maintenance" =>
    /\ account = Susie(10000) => ret.res.k = "Ok" /\ ret.res.v \in 908 .. 910
    /\ account = Susie(9000) => ret.res.k = "Ok" /\ ret.res.v \in -42 .. -40

\* C6: when fetching a bank, building its feed or valuing an active balance
\* fails, the evaluation returns an error: from_pubkey for a missing bank or a
\* failed feed, asset_value / liability_value / maintenance for a balance whose
\* value cannot be computed; never a success that leaves the balance out.
SomeBankMissing == \E i \in DOMAIN account : ~chain[account[i].bank_pk].some
AllBanksDecode ==
  \A i \in DOMAIN account :
    chain[account[i].bank_pk].some /\ parse_bank(chain[account[i].bank_pk]).k = "Ok"
SomeFeedFails ==
  \E i \in DOMAIN account : try_from_config(BankOnChain(account[i].bank_pk)).k # "Ok"
C6_FailuresPropagate ==
  /\ (ret.op = "from_pubkey" /\ acct_data = Data(GoodLength, 0) /\ SomeBankMissing)
       => user.k = "Err"
  /\ (ret.op = "from_pubkey" /\ acct_data = Data(GoodLength, 0) /\ AllBanksDecode
        /\ SomeFeedFails) => user.k = "Err"
  /\ (ret.op = "asset_value" /\ ~AllValuesOk(BankAccounts, "Assets"))
       => ret.res.k = "Err"
  /\ (ret.op = "liability_value" /\ ~AllValuesOk(BankAccounts, "Liabilities"))
       => ret.res.k = "Err"
  /\ (ret.op = "maintenance" /\ (~AllValuesOk(BankAccounts, "Assets")
                                   \/ ~AllValuesOk(BankAccounts, "Liabilities")))
       => ret.res.k = "Err"

\* C7: when the bank account of an active balance is missing, from_pubkey
\* fails with an error; a MarginfiUserAccount is built only when every bank
\* was fetched, and then holds one bank account per active balance.
C7_MissingBankIsAnError ==
  ret.op = "from_pubkey" =>
    /\ (acct_data = Data(GoodLength, 0) /\ SomeBankMissing)
         => user = Err("get_multiple_accounts failed to load all bank accounts")
    /\ user.k = "Ok" => ~SomeBankMissing /\ Len(BankAccounts) = Len(account)
C7_Witness ==
  /\ ret.op = "from_pubkey" /\ SomeBankMissing /\ Len(account) = MaxBalances
  /\ user.k = "Err"

\* C8: an overflow of a running sum or of the final subtraction is returned as
\* an error, never as a panic or a wrapped value.
RECURSIVE CodeSum(_, _, _)
CodeSum(bas, side, i) ==
  IF i > Len(bas) THEN 0
  ELSE (IF side = "Assets" THEN BankAccount_asset_value(bas[i]).v
        ELSE BankAccount_liability_value(bas[i]).v) + CodeSum(bas, side, i + 1)
C8_OverflowIsAnError ==
  /\ ret.op \in {"asset_value", "liability_value", "maintenance"} => ret.res.k # "Panic"
  /\ (ret.op = "asset_value" /\ ret.res.k = "Ok")
       => ret.res.v = CodeSum(BankAccounts, "Assets", 1)
  /\ (ret.op = "liability_value" /\ ret.res.k = "Ok")
       => ret.res.v = CodeSum(BankAccounts, "Liabilities", 1)

\* ------------------------------------------------------- claims: decoding

\* C9: decoding a buffer of any length returns the record or an error, never
\* panics, and succeeds only when the length is exactly 8 + record_size.
C9_DecodeNeverPanics ==
  out.op \in {"parse_account", "parse_swb_ignore_alignment",
              "load_price_update_v2_checked"} =>
    /\ out.res.k # "Panic"
    /\ out.res.k = "Ok" => buf.len = 8 + RECORD_SIZE

\* ---------------------------------------------------- claims: price queries

BiasedQuery ==
  /\ out.op = "get_price_of_type"
  /\ query.bias # "None"
  /\ feed.variant \in {"PythPushOracle", "SwitchboardPull"}

\* interval = rescaled raw confidence x the fixed multiplier
Interval ==
  IF feed.variant = "PythPushOracle"
  THEN LET sel == pyth_select(feed, query.price_type = "TimeWeighted") IN
       Bind(pyth_price_components_to_i80f48(from_num(sel.conf), sel.exponent),
            LAMBDA c : checked_mul(c, CONF_INTERVAL_MULTIPLE))
  ELSE Bind(from_num(feed.result.std_dev), LAMBDA n :
       Bind(checked_div(n, EXP_10_I80F48(SWB_PRECISION)), LAMBDA d :
       checked_mul(d, STD_DEV_MULTIPLE)))

BasePrice ==
  IF feed.variant = "PythPushOracle"
  THEN LET sel == pyth_select(feed, query.price_type = "TimeWeighted") IN
       pyth_price_components_to_i80f48(from_num(sel.price), sel.exponent)
  ELSE Swb_get_price(feed)

\* m: the supplied oracle_max_confidence, or u32::MAX / 10 when it is 0.
MaxConfidenceUsed ==
  IF query.oracle_max_confidence = 0 THEN U32_MAX_RAW \div 10
  ELSE query.oracle_max_confidence

\* price x m / u32::MAX
Threshold == TruncDiv(BasePrice.v * MaxConfidenceUsed, U32_MAX_RAW)

\* price x m is representable as an I80F48
ProductFits == InI80F48(BasePrice.v * MaxConfidenceUsed)

IsExceeded == out.res = Err("OracleMaxConfidenceExceeded")

\* A positive price whose raw confidence is 20% of it.
TwentyPercent ==
  /\ feed.variant = "PythPushOracle"
  /\ query.price_type = "RealTime"
  /\ feed.price.price > 0
  /\ 5 * feed.price.conf = feed.price.price

\* C10 as stated: a biased query whose interval and price are computed fails
\* with OracleMaxConfidenceExceeded exactly when interval > price x m / u32::MAX.
C10_ExceededExactlyAboveThreshold ==
  (BiasedQuery /\ Interval.k = "Ok" /\ BasePrice.k = "Ok")
    => (IsExceeded <=> Interval.v > Threshold)

\* C10 amended: the same, provided price x m is representable; when it is not,
\* the query fails with a math error instead.  A 20% confidence fails with
\* oracle_max_confidence = 0 and passes the check with 100%.
C10_ExceededAboveThresholdUnlessOverflow ==
  (BiasedQuery /\ Interval.k = "Ok" /\ BasePrice.k = "Ok")
    => /\ ProductFits => (IsExceeded <=> Interval.v > Threshold)
       /\ ~ProductFits => out.res = Err("MathError")
       /\ (TwentyPercent /\ ProductFits /\ query.oracle_max_confidence = 0)
            => IsExceeded
       /\ (TwentyPercent /\ ProductFits /\ query.oracle_max_confidence = U32_MAX_RAW)
            => out.res.k = "Ok"
C10_Witness ==
  /\ BiasedQuery /\ TwentyPercent /\ ProductFits
  /\ query.oracle_max_confidence = 0
  /\ IsExceeded

\* 5% of the base price.
FivePercentOfPrice == (BasePrice.v * MAX_CONF_INTERVAL) \div ONE

\* The interval the specification applies: the smaller of the computed
\* interval and 5% of the base price.
AppliedInterval == Min(Interval.v, FivePercentOfPrice)

\* C11: whenever a biased query succeeds, the applied interval is
\* min(computed interval, 5% of the base price), so a Low price lies in
\* [0.95 x price, price] and a High price in [price, 1.05 x price], for every
\* oracle_max_confidence.
C11_AppliedIntervalIsCapped ==
  (BiasedQuery /\ out.res.k = "Ok") =>
    /\ Interval.k = "Ok" /\ BasePrice.k = "Ok"
    /\ Abs(out.res.v - BasePrice.v) = AppliedInterval
    /\ query.bias = "Low" =>
         95 * BasePrice.v <= 100 * out.res.v /\ out.res.v <= BasePrice.v
    /\ query.bias = "High" =>
         BasePrice.v <= out.res.v /\ 100 * out.res.v <= 105 * BasePrice.v
\* A successful biased query whose computed interval is above the 5% cap.
C11_Witness ==
  /\ BiasedQuery /\ out.res.k = "Ok"
  /\ Interval.v > FivePercentOfPrice /\ FivePercentOfPrice > 0
  /\ query.oracle_max_confidence = U32_MAX_RAW

\* C12: High returns base price + applied interval, Low returns base price -
\* applied interval, and no bias returns the base price as computed, never
\* OracleMaxConfidenceExceeded; for PythPush the interval comes from the field
\* (EMA or instantaneous) the price type selects.
C12_BiasAddsOrSubtractsInterval ==
  (out.op = "get_price_of_type"
     /\ feed.variant \in {"PythPushOracle", "SwitchboardPull"}) =>
    /\ query.bias = "None" => out.res = BasePrice /\ ~IsExceeded
    /\ (query.bias = "High" /\ out.res.k = "Ok") =>
         out.res.v = BasePrice.v + AppliedInterval
    /\ (query.bias = "Low" /\ out.res.k = "Ok") =>
         out.res.v = BasePrice.v - AppliedInterval
\* A successful High query on the EMA field of a PythPush feed whose EMA and
\* instantaneous fields differ, with a non-zero interval.
C12_Witness ==
  /\ out.op = "get_price_of_type" /\ feed.variant = "PythPushOracle"
  /\ query.bias = "High" /\ query.price_type = "TimeWeighted"
  /\ feed.price.conf # feed.ema_price.conf
  /\ out.res.k = "Ok" /\ AppliedInterval > 0

\* mantissa x 10^exponent in units of 1/ONE, rounded toward zero.
MantissaTimesPowerOfTen(mantissa, exponent) ==
  IF exponent < 0 THEN TruncDiv(mantissa * ONE, Pow10(-exponent))
  ELSE mantissa * ONE * Pow10(exponent)

\* C13: the unbiased PythPush price is mantissa x 10^exponent of the field the
\* price type selects, or a math error; never a panic, for every exponent.
C13_PythPriceIsMantissaTimesPowerOfTen ==
  (out.op = "get_price_of_type" /\ feed.variant = "PythPushOracle"
     /\ query.bias = "None") =>
    LET sel == pyth_select(feed, query.price_type = "TimeWeighted") IN
    /\ out.res.k # "Panic"
    /\ out.res.k = "Ok" => out.res.v = MantissaTimesPowerOfTen(sel.price, sel.exponent)
    /\ out.res.k = "Err" => out.res.e = "MathError"

\* ------------------------------------------------ claims: feed construction

Built == out.op = "try_from_config"
Setup == query.bank.config.oracle_setup
\* The max age the construction was given.
GivenMaxAge == query.loaded.v.max_age

\* C14: SwitchboardPullPriceFeed::load_checked on an account that decodes
\* fails with SwitchboardStalePrice exactly when
\* reference_timestamp - last_update_timestamp > max_age, for every u64 max_age
\* and every pair of timestamps, and succeeds otherwise.
C14_SwbStaleExactlyBeyondMaxAge ==
  (Built /\ Setup = "SwitchboardPull" /\ feed.data = GoodData) =>
    IF query.clock - feed.swb.last_update_timestamp > GivenMaxAge
    THEN out.res = Err("SwitchboardStalePrice")
    ELSE out.res.k = "Ok"

\* The max age the bank configures: oracle_max_age, or the default when a
\* PythPushOracle bank configures 0.
ConfiguredMaxAge ==
  IF query.bank.config.oracle_max_age = 0 THEN MAX_PYTH_ORACLE_AGE
  ELSE query.bank.config.oracle_max_age
PublishAge == query.clock - feed.msg.publish_time

\* C15: for a PythPushOracle bank loaded with its configured max age, a
\* message published max_age + 1 seconds before the clock fails with the
\* stale-price error, one published exactly max_age seconds before succeeds,
\* and one below the minimum verification level fails with the
\* insufficient-verification error.
C15_PythStaleBeyondConfiguredMaxAge ==
  (Built /\ Setup = "PythPushOracle" /\ query.via = "load_with_clock"
     /\ feed.data = GoodData) =>
    /\ feed.msg.verification_level # "Full" =>
         out.res = Err("PythPushInsufficientVerificationLevel")
    /\ (feed.msg.verification_level = "Full" /\ PublishAge = ConfiguredMaxAge + 1) =>
         out.res = Err("PythPushStalePrice")
    /\ (feed.msg.verification_level = "Full" /\ PublishAge = ConfiguredMaxAge) =>
         out.res.k = "Ok"
\* The default age applied: a bank configuring 0 whose message is one second
\* older than MAX_PYTH_ORACLE_AGE.
C15_Witness ==
  /\ Built /\ Setup = "PythPushOracle" /\ query.via = "load_with_clock"
  /\ feed.data = GoodData /\ feed.msg.verification_level = "Full"
  /\ query.bank.config.oracle_max_age = 0
  /\ PublishAge = MAX_PYTH_ORACLE_AGE + 1
  /\ out.res = Err("PythPushStalePrice")

\* The base Pyth feed of a derived construction.
BasePyth == PythPush_load_checked(feed, query.clock, GivenMaxAge)
BaseSwb == SwitchboardPull_load_checked(feed, query.clock, GivenMaxAge)

\* mantissa x (stake_pool_balance - 1 SOL) / lst_supply
StakeScaled(mantissa) ==
  TruncDiv(mantissa * (feed.stake_state.stake - LAMPORTS_PER_SOL), feed.lst_supply)
StakeStateOk ==
  feed.stake_state.kind = "Stake" /\ feed.stake_state.stake >= LAMPORTS_PER_SOL

KaminoRatio == TruncDiv(feed.reserve.total_liq * ONE, feed.reserve.total_col)
KaminoScaled(x) == (x * KaminoRatio) \div ONE
KaminoBase == IF Setup = "KaminoPythPush" THEN BasePyth ELSE BaseSwb

C18_FixedFeedReturnsConfiguredPrice ==
  (Built /\ Setup = "Fixed") =>
    /\ out.res.k = "Ok" <=> query.bank.config.fixed_price >= 0
    /\ query.bank.config.fixed_price < 0 =>
         out.res = Err("FixedOraclePriceNegative")
    /\ ret.op = "get_price_of_type" => ret.res = Ok(query.bank.config.fixed_price)
\* A High query with the default max confidence on a Fixed feed of price 1.00.
C18_Witness ==
  /\ Built /\ Setup = "Fixed" /\ ret.op = "get_price_of_type"
  /\ ret.bias = "High" /\ ret.price_type = "TimeWeighted"
  /\ query.bank.config.fixed_price = 100 /\ ret.res = Ok(100)

\* ------------------------------------------ claims: health engine, zero shares

AllZeroShares(bas) ==
  \A i \in DOMAIN bas :
    bas[i].balance.asset_shares = 0 /\ bas[i].balance.liability_shares = 0

\* C19: for an account whose balances all have zero asset shares and zero
\* liability shares, asset_value, liability_value and maintenance all succeed
\* with 0 (a margin that is not negative: not liquidatable), whatever the
\* banks' prices, weights and oracle state are.
C19_AllZeroSharesIsZero ==
  (ret.op \in {"asset_value", "liability_value", "maintenance"}
     /\ AllZeroShares(BankAccounts)) =>
    /\ ret.res = Ok(0)
    /\ ~(ret.res.v < 0)
\* Two zero balances, one of them in a bank whose price query fails.
C19_Witness ==
  /\ ret.op = "maintenance" /\ Len(BankAccounts) = MaxBalances
  /\ AllZeroShares(BankAccounts)
  /\ \E i \in DOMAIN BankAccounts :
       get_price_of_type(BankAccounts[i].price_feed, "RealTime", "Low",
                         BankAccounts[i].bank.config.oracle_max_confidence).k # "Ok"
  /\ ret.res = Ok(0)

\* ------------------------------------------------------- listen_for_targets

\* Largest number of log responses the subscription delivers.
MaxResponses == 2

\* The MarginfiAccounts the events name: 1 holds a deposit in bank 1, 2 does
\* not exist, 3 holds a deposit in bank 5 (negative fixed price).
AccountKeys == 1 .. 3
MarginfiAccountOnChain(pk) ==
  CASE pk = 1 -> [data |-> Data(GoodLength, 0),
                  balances |-> <<[bank_pk |-> 1, asset_shares |-> 9000,
                                  liability_shares |-> 0]>>]
    [] pk = 2 -> [data |-> NoAccount, balances |-> <<>>]
    [] pk = 3 -> [data |-> Data(GoodLength, 0),
                  balances |-> <<[bank_pk |-> 5, asset_shares |-> 9000,
                                  liability_shares |-> 0]>>]
ListenChain == [b \in Banks |-> Data(GoodLength, b)]

\* A log line: whether it starts with "Program data: ", and what follows:
\* whether it is base64, the length it decodes to, whether the bytes after
\* the first 8 deserialize as a LendingAccountWithdrawEvent, and the
\* marginfi_account of its header.
LogLine(prefix, base64_ok, decoded_len, body_ok, pk) ==
  [prefix |-> prefix, base64_ok |-> base64_ok, decoded_len |-> decoded_len,
   body_ok |-> body_ok, marginfi_account |-> pk]
OtherLine == LogLine(FALSE, FALSE, 0, FALSE, 1)
BadBase64Line == LogLine(TRUE, FALSE, 0, FALSE, 1)
ShortLine == LogLine(TRUE, TRUE, 7, FALSE, 1)
NotEventLine == LogLine(TRUE, TRUE, 8 + RECORD_SIZE - 1, FALSE, 1)
WithdrawLine(pk) == LogLine(TRUE, TRUE, 8 + RECORD_SIZE, TRUE, pk)

LogLists ==
  {<<>>,
   <<OtherLine, WithdrawLine(1), NotEventLine>>,
   <<WithdrawLine(1), WithdrawLine(2), WithdrawLine(1)>>,
   <<WithdrawLine(3), BadBase64Line>>,
   <<ShortLine, WithdrawLine(1)>>,
   <<WithdrawLine(1), WithdrawLine(1)>>}
Responses == [err : BOOLEAN, logs : LogLists]

\* A response treated as successful whatever its transaction did.
response_err_ignored(response) == FALSE

\* response.value.err.is_some()
response_err(response) == response.err

\* log.strip_prefix("Program data: ")
strip_prefix(log) == IF log.prefix THEN Ok(log) ELSE Err("None")

\* parse_anchor_event::<LendingAccountWithdrawEvent>: base64 decode, drop the
\* first 8 bytes by slicing (out of range below 8 bytes), deserialize the rest.
parse_anchor_event(event_data) ==
  IF ~event_data.base64_ok THEN Err("DecodeError")
  ELSE IF event_data.decoded_len < 8 THEN Panic
  ELSE IF ~event_data.body_ok THEN Err("io")
  ELSE Ok([header |-> [marginfi_account |-> event_data.marginfi_account]])

\* self.handle_account(&event.header.marginfi_account)
handle_event(event, ch) ==
  handle_account(MarginfiAccountOnChain(event.header.marginfi_account).data,
                 MarginfiAccountOnChain(event.header.marginfi_account).balances,
                 ch).res

Running == out = [op |-> "listen_for_targets", res |-> NotCalled]

\* Seconds the cluster clock advances while the program runs, at most.
MaxClockTicks == 2
\* The Clock sysvar account as the cluster holds it.
ClockSysvar(t) == [unix_timestamp |-> t]

\* handle_account given the cluster's current clock instead.
handle_account_clock_refreshed(self, sysvar) == sysvar

\* &self.clock, the clock handle_account hands to try_from_bank.
handle_account_clock(self, sysvar) == self.clock
NoResponse == [response |-> 0, line |-> 0, in_hand |-> FALSE]

\* Under SpecListen: acct_data is the cluster's Clock sysvar account; user is
\* the Marginfi object once Marginfi::new has returned; buf is the responses
\* received so far, in arrival order; query is the response in hand and the
\* number of its log lines done; ret is the handle_account calls made, in
\* order, each with the clock it used; out is what listen_for_targets
\* returned, if it has.
InitListen ==
  /\ buf = <<>>
  /\ query = NoResponse
  /\ ret = <<>>
  /\ out = NoOut
  /\ chain = ListenChain
  /\ account = <<>>
  /\ acct_data = ClockSysvar(LoadClock)
  /\ user = NotCalled
  /\ feed = IdleFeed

\* Marginfi::new: the Clock sysvar account is fetched and decoded once and
\* kept in the object; main then calls listen_for_targets on it.
New ==
  /\ user = NotCalled
  /\ \E fetched \in BOOLEAN :
       IF fetched
       THEN /\ user' = Ok([clock |-> acct_data])
            /\ out' = [op |-> "listen_for_targets", res |-> NotCalled]
       ELSE /\ user' = Err("rpc")
            /\ out' = out
  /\ UNCHANGED <<account, acct_data, chain, ret, buf, feed, query>>

\* Time passes on the cluster.
ClockAdvances ==
  /\ acct_data.unix_timestamp < LoadClock + MaxClockTicks
  /\ acct_data' = ClockSysvar(acct_data.unix_timestamp + 1)
  /\ UNCHANGED <<account, chain, user, ret, buf, feed, query, out>>

\* logs.next().await yields a response; one of a failed transaction is skipped.
ReceiveResponse ==
  /\ Running /\ ~query.in_hand /\ Len(buf) < MaxResponses
  /\ \E response \in Responses :
       /\ buf' = Append(buf, response)
       /\ query' = [response |-> Len(buf) + 1, line |-> 0,
                    in_hand |-> ~response_err(response) /\ response.logs # <<>>]
  /\ UNCHANGED <<account, acct_data, chain, user, ret, feed, out>>

\* One iteration of the for loop over the logs of the response in hand.
ProcessLog ==
  /\ Running /\ query.in_hand
  /\ LET logs == buf[query.response].logs
         log == logs[query.line + 1]
         parsed == Bind(strip_prefix(log), LAMBDA event_data :
                        parse_anchor_event(event_data))
         handled == Bind(parsed, LAMBDA event : handle_event(event, chain))
     IN /\ query' = [query EXCEPT !.line = @ + 1,
                       !.in_hand = parsed.k # "Panic"
                                   /\ (parsed.k = "Ok" => handled.k = "Ok")
                                   /\ query.line + 1 < Len(logs)]
        /\ ret' = IF parsed.k = "Ok"
                  THEN Append(ret, [response |-> query.response,
                                    line |-> query.line + 1,
                                    account |-> parsed.v.header.marginfi_account,
                                    clock |-> handle_account_clock(user.v, acct_data),
                                    res |-> handled])
                  ELSE ret
        /\ out' = IF parsed.k = "Panic" THEN [out EXCEPT !.res = Panic]
                  ELSE IF parsed.k = "Ok" /\ handled.k # "Ok"
                    THEN [out EXCEPT !.res = handled]
                  ELSE out
  /\ UNCHANGED <<account, acct_data, chain, user, buf, feed>>

\* logs.next().await yields None: the loop ends and Ok(()) is returned.
StreamEnds ==
  /\ Running /\ ~query.in_hand
  /\ out' = [out EXCEPT !.res = Ok(0)]
  /\ UNCHANGED <<account, acct_data, chain, user, ret, buf, feed, query>>

NextListen == New \/ ClockAdvances \/ ReceiveResponse \/ ProcessLog \/ StreamEnds

SpecListen == InitListen /\ [][NextListen]_vars

\* ----------------------------------------------------------- claims: listener

\* The log lines gone through so far, in arrival order: every line of the
\* earlier error-free responses and the lines done of the last one.
RECURSIVE LinesDone(_, _)
LinesDone(i, j) ==
  IF i = 0 THEN <<>>
  ELSE IF j = 0 THEN
    LinesDone(i - 1, IF i = 1 \/ buf[i - 1].err THEN 0 ELSE Len(buf[i - 1].logs))
  ELSE Append(LinesDone(i, j - 1), [response |-> i, line |-> j])
ParsesAsWithdraw(pos) ==
  /\ buf[pos.response].logs[pos.line].prefix
  /\ parse_anchor_event(buf[pos.response].logs[pos.line]).k = "Ok"
WithdrawLinesDone == SelectSeq(LinesDone(query.response, query.line), ParsesAsWithdraw)

\* C20: the handle_account calls are, in arrival order and line order, exactly
\* the lines gone through of error-free responses that parse as a withdraw
\* event, one call per line, each for the account of its event; every call
\* but the last succeeded, and when one fails listen_for_targets returns its
\* error with no response or log line gone through after it.
C20_HandlesWithdrawLinesInOrder ==
  /\ Len(ret) = Len(WithdrawLinesDone)
  /\ \A k \in DOMAIN ret :
       /\ ret[k].response = WithdrawLinesDone[k].response
       /\ ret[k].line = WithdrawLinesDone[k].line
       /\ ~buf[ret[k].response].err
       /\ ret[k].account = buf[ret[k].response].logs[ret[k].line].marginfi_account
       /\ k < Len(ret) => ret[k].res.k = "Ok"
  /\ query.response = Len(buf)
  /\ (out.res.k = "Ok" /\ buf # <<>>) =>
       (buf[Len(buf)].err \/ query.line = Len(buf[Len(buf)].logs))
  /\ (ret # <<>> /\ ret[Len(ret)].res.k # "Ok") =>
       /\ out.res = ret[Len(ret)].res
       /\ ret[Len(ret)].response = query.response
       /\ ret[Len(ret)].line = query.line
  /\ out.res.k = "Err" => ret # <<>> /\ out.res = ret[Len(ret)].res
\* A failed transaction with a withdraw line was skipped, then the second
\* handle_account call of the next response failed with a withdraw line left.
C20_Witness ==
  /\ Len(buf) = 2 /\ buf[1].err /\ buf[1].logs = <<WithdrawLine(1), WithdrawLine(1)>>
  /\ Len(ret) = 2 /\ ret[1].res.k = "Ok"
  /\ out.res = Err("invalid account data")
  /\ query.line = 2 /\ Len(buf[2].logs) = 3

\* The log line gone through last, when there is one.
LineDone == buf[query.response].logs[query.line]
SomeLineDone == query.response > 0 /\ query.line > 0

\* C21: a "Program data: " line whose payload does not decode to a withdraw
\* event (bad base64, fewer than 8 decoded bytes, or a body that fails to
\* deserialize) is skipped: parse_anchor_event returns an error value for it,
\* never panics, and the listener goes on to the next log line.
C21_UndecodablePayloadIsSkipped ==
  (SomeLineDone /\ LineDone.prefix
     /\ (~LineDone.base64_ok \/ LineDone.decoded_len < 8 \/ ~LineDone.body_ok)) =>
    /\ parse_anchor_event(LineDone).k = "Err"
    /\ out.res.k # "Panic"
    /\ Running => query.in_hand = (query.line < Len(buf[query.response].logs))

\* C22: the reference clock stored in Marginfi is the one read in
\* Marginfi::new and is left unchanged by listen_for_targets and
\* handle_account: every handle_account call, for every event however late it
\* arrives, uses the clock value captured at startup.
C22_ClockIsTheOneCapturedAtStartup ==
  [][/\ (user = NotCalled /\ user'.k = "Ok") => user'.v.clock = acct_data
     /\ user.k = "Ok" => user' = user
     /\ Len(ret') > Len(ret) => ret'[Len(ret')].clock = user.v.clock]_vars
\* A call made after the cluster clock has moved on from the stored one.
C22_Witness ==
  /\ user.k = "Ok" /\ ret # <<>>
  /\ ret[Len(ret)].clock = user.v.clock
  /\ acct_data.unix_timestamp = user.v.clock.unix_timestamp + MaxClockTicks
  /\ query.line > 0 /\ LineDone.prefix /\ LineDone.body_ok

\* --------------------------------------- claims: confidence assertions

\* C23: in get_confidence_interval of both PythPush and SwitchboardPull feeds
\* the assertions "max confidence interval >= 0" and "confidence interval
\* >= 0" hold every time they are reached, for every feed content: a negative
\* price or a negative std_dev is rejected with an error before them, never
\* by a panic.
C23_ConfidenceAssertionsHold ==
  (BiasedQuery /\ Interval.k = "Ok" /\ BasePrice.k = "Ok") =>
    /\ out.res.k # "Panic"
    /\ (BasePrice.v < 0 \/ Interval.v < 0) => out.res.k = "Err"

\* ------------------------------------------------- claims: from_pubkey pairing

\* The bank the chain holds at a balance's bank_pk, decoded.
BankLoadedFor(balance) == BankOnChain(chain[balance.bank_pk].content)

====
